---- MODULE Spec2Model ----
(***************************************************************************)
(* A model of klepto: the dump engine (pkg/dumper/engine), the generic SQL *)
(* reader, the anonymiser transformer and the MySQL view planner.          *)
(*                                                                         *)
(* Seven specifications share the module:                                  *)
(*   Spec      Engine.Dump: structure dump, hooks, semaphore, the per      *)
(*             table dump/read goroutines, the completion goroutine.       *)
(*   FairSpec  Spec with the scheduler's weak fairness.                    *)
(*   SpecRead  one ReadTable call (SQL reader, optionally wrapped by the   *)
(*             anonymiser) and the consumer of its sink.                   *)
(*   SpecAnon  the anonymiser's per-row transformation.                    *)
(*   SpecViews Engine.DumpViews: view ordering and the prefix rewrite.     *)
(*   SpecRules the anonymiser's compiled-rule map under concurrent tables. *)
(*   SpecDirect one ReadTable call on the SQL reader alone.                *)
(***************************************************************************)
EXTENDS Integers, Sequences, FiniteSets, TLC

\* ------------------------------------------------------------------ bounds
MaxTables == 2
MaxConcurrency == 1

TableIds == 1..MaxTables

VARIABLES
  \* ---- Engine.Dump
  tables,       \* result of reader.GetTables(): a sequence of table names
  ignoreData,   \* tables whose configuration sets IgnoreData
  concurrency,  \* the concurrency argument of Dump
  hooker,       \* TRUE iff the Dumper implements Hooker
  epc,          \* position of the goroutine running Dump
  idx,          \* index of the "for _, tbl := range tables" loop
  retErr,       \* what Dump returned: "none" (not yet), "nil", "err"
  structState,  \* DumpStructure call: "none", "running", "ok", "failed"
  preState,     \* PreDumpTables call, same values
  postState,    \* PostDumpTables call, same values
  semChan,      \* number of values buffered in semChan
  semClosed,    \* close(semChan) has run
  wg,           \* the sync.WaitGroup counter
  rowChan,      \* per table: "none", "open", "closed"
  dumpTask,     \* per table, the goroutine calling DumpTable
  readTask,     \* per table, the goroutine calling Reader.ReadTable
  sentRows,     \* per table, whether a row was handed over rowChan
  taskErr,      \* per table, the errors logged: subset of {"dump", "read"}
  compTask,     \* the completion goroutine
  doneSent      \* number of values sent on done

engVars == <<tables, ignoreData, concurrency, hooker, epc, idx, retErr,
             structState, preState, postState, semChan, semClosed, wg,
             rowChan, dumpTask, readTask, sentRows, taskErr, compTask,
             doneSent>>

VARIABLES
  anRow0,      \* history: the row as received from rawChan
  anRow,       \* the row, a Go map mutated in place
  anSpec,      \* table.Anonymise: column -> directive
  anCompiled,  \* a.compiledRules: the columns whose rule compiled
  anTodo,      \* columns "range table.Anonymise" has still to visit
  anPc,        \* "Compile", "Loop", "Sent", "Panicked"
  anOut        \* history: per visited column, the row before and the outcome

anVars == <<anRow0, anRow, anSpec, anCompiled, anTodo, anPc, anOut>>

VARIABLES
  \* ---- one ReadTable call and the consumer of its sink
  rdMode,      \* "direct": sqlReader.ReadTable called by the caller;
               \* "delegate": through the anonymiser, table not anonymised;
               \* "transform": through the anonymiser with a transformation
  rdRows,      \* rows the table's query returns, in order
  rdRels,      \* opts.Relationships, in declaration order
  rpc,         \* position of sqlReader.ReadTable / publishRows
  ri,          \* index of the current row of the table ("rows.Next()")
  rj,          \* index of the current relationship of that row
  rk,          \* index of the current row of the relationship query
  rkids,       \* rows returned by the current relationship query
  rerr,        \* error sqlReader.ReadTable returns: "nil" or "err"
  colCache,    \* sqlReader.columns: tables whose columns are cached
  apc,         \* position of anonymiser.ReadTable
  aerr,        \* what the outermost ReadTable call returned: "none", "nil", "err"
  gpc,         \* the anonymiser's goroutine: "none", "Recv", "Send", "Ended"
  gRow,        \* the row that goroutine holds
  rawCloses,   \* number of close(rawChan) executed
  sinkCloses,  \* number of close() executed on the caller's sink
  cpc,         \* the consumer of the sink: "Recv", "Stopped", "Drained"
  emitted,     \* history: what publishRows sent on its channel
  stream,      \* history: rows the consumer received from the sink
  rdLost       \* history: rows and relationships dropped by a logged error

rdVars == <<rdMode, rdRows, rdRels, rpc, ri, rj, rk, rkids, rerr, colCache,
            apc, aerr, gpc, gRow, rawCloses, sinkCloses, cpc, emitted,
            stream, rdLost>>

VARIABLES
  \* ---- Engine.DumpViews and storage.GetViewDefinitions
  vwViews,        \* what GetViews returns: view names in discovery order
  vwWeights,      \* spec.Views: view name -> weight
  srcPrefix,      \* sourceDbPrefix, a sequence of characters
  dstPrefix,      \* destinationDbPrefix
  vpc,            \* position of DumpViews
  viewsErr,       \* the err of GetViews, kept until after the sort
  weightedViews,  \* the slice of wView being built, sorted and walked
  vi,             \* index of the loop writing the statements
  vwSql,          \* the text GetViewDefinitions builds and returns
  vwStmts,        \* history: names of the views whose statement was written
  dumpedSql,      \* the texts DumpViewDefinitions was called with
  vwErr,          \* err of readAndDumpViews, held by DumpViews
  vwRet,          \* what DumpViews returned: "none", "nil", "err", "panic"
  doneTask,       \* the goroutine sending on done: "none", "Sending", "Sent"
  vwDone          \* number of values sent on done

vwVars == <<vwViews, vwWeights, srcPrefix, dstPrefix, vpc, viewsErr,
            weightedViews, vi, vwSql, vwStmts, dumpedSql, vwErr, vwRet,
            doneTask, vwDone>>

\* -------------------------------------------- the compiled-rule map
VARIABLES
  rlN,            \* concurrency of the dump
  rlSem,          \* values in semChan
  rlPc,           \* per table, position of the read goroutine in ReadTable
  rlGo,           \* per table, position of the anonymiser's goroutine
  rlRows,         \* per table, rows the wrapped reader has still to send
  rlMap,          \* keys of a.compiledRules
  rlFatal         \* the Go runtime has aborted the process

rlVars == <<rlN, rlSem, rlPc, rlGo, rlRows, rlMap, rlFatal>>

\* What an action of one part leaves unchanged: the other parts.
notEng == <<anVars, rdVars, vwVars, rlVars>>
notAn == <<engVars, rdVars, vwVars, rlVars>>
notRd == <<engVars, anVars, vwVars, rlVars>>
notVw == <<engVars, anVars, rdVars, rlVars>>
notRl == <<engVars, anVars, rdVars, vwVars>>

vars == <<engVars, anVars, rdVars, vwVars, rlVars>>

\* =========================================================================
\* Engine.Dump (src/pkg/dumper/engine/engine.go)
\* =========================================================================

EngInit ==
  /\ \E n \in 0..MaxTables :
       /\ tables = [i \in 1..n |-> i]
       /\ ignoreData \in SUBSET (1..n)
  /\ concurrency \in 0..MaxConcurrency
  /\ hooker \in BOOLEAN
  /\ epc = "GetStructure"
  /\ idx = 1
  /\ retErr = "none"
  /\ structState = "none"
  /\ preState = "none"
  /\ postState = "none"
  /\ semChan = 0
  /\ semClosed = FALSE
  /\ wg = 0
  /\ rowChan = [t \in TableIds |-> "none"]
  /\ dumpTask = [t \in TableIds |-> "none"]
  /\ readTask = [t \in TableIds |-> "none"]
  /\ sentRows = [t \in TableIds |-> FALSE]
  /\ taskErr = [t \in TableIds |-> {}]
  /\ compTask = "none"
  /\ doneSent = 0

\* "return errors.Wrap(err, ...)": Dump returns the error to its caller.
ReturnErr ==
  /\ epc' = "Returned"
  /\ retErr' = "err"

\* readAndDumpStructure: sql, err := e.reader.GetStructure()
GetStructure ==
  /\ epc = "GetStructure"
  /\ \E ok \in BOOLEAN :
       IF ok THEN epc' = "DumpStructure" /\ retErr' = retErr
             ELSE ReturnErr
  /\ UNCHANGED <<tables, ignoreData, concurrency, hooker, idx, structState,
                 preState, postState, semChan, semClosed, wg, rowChan,
                 dumpTask, readTask, sentRows, taskErr, compTask, doneSent>>
  /\ UNCHANGED notEng

\* readAndDumpStructure: the call e.DumpStructure(sql) starts
DumpStructureCall ==
  /\ epc = "DumpStructure"
  /\ structState' = "running"
  /\ epc' = "DumpStructureWait"
  /\ UNCHANGED <<tables, ignoreData, concurrency, hooker, idx, retErr,
                 preState, postState, semChan, semClosed, wg, rowChan,
                 dumpTask, readTask, sentRows, taskErr, compTask, doneSent>>
  /\ UNCHANGED notEng

\* What Dump does with the result of readAndDumpStructure.
AfterStructureMutant(ok) ==
  epc' = "GetTables" /\ retErr' = retErr

AfterStructure(ok) ==
  IF ok THEN epc' = "GetTables" /\ retErr' = retErr
        ELSE ReturnErr

\* e.DumpStructure(sql) returns; Dump returns its error, if any.
DumpStructureReturn ==
  /\ epc = "DumpStructureWait"
  /\ \E ok \in BOOLEAN :
       /\ structState' = IF ok THEN "ok" ELSE "failed"
       /\ AfterStructure(ok)
  /\ UNCHANGED <<tables, ignoreData, concurrency, hooker, idx,
                 preState, postState, semChan, semClosed, wg, rowChan,
                 dumpTask, readTask, sentRows, taskErr, compTask, doneSent>>
  /\ UNCHANGED notEng

\* readAndDumpTables: tables, err := e.reader.GetTables()
GetTables ==
  /\ epc = "GetTables"
  /\ \E ok \in BOOLEAN :
       IF ok THEN epc' = "PreDumpTables" /\ retErr' = retErr
             ELSE ReturnErr
  /\ UNCHANGED <<tables, ignoreData, concurrency, hooker, idx, structState,
                 preState, postState, semChan, semClosed, wg, rowChan,
                 dumpTask, readTask, sentRows, taskErr, compTask, doneSent>>
  /\ UNCHANGED notEng

\* if adv, ok := e.Dumper.(Hooker); ok { adv.PreDumpTables(tables) ... }
PreDumpTablesCall ==
  /\ epc = "PreDumpTables"
  /\ IF hooker
       THEN preState' = "running" /\ epc' = "PreDumpTablesWait"
       ELSE preState' = preState /\ epc' = "Loop"
  /\ UNCHANGED <<tables, ignoreData, concurrency, hooker, idx, retErr,
                 structState, postState, semChan, semClosed, wg, rowChan,
                 dumpTask, readTask, sentRows, taskErr, compTask, doneSent>>
  /\ UNCHANGED notEng

\* What readAndDumpTables does with the result of PreDumpTables.
AfterPreDumpTablesMutant(ok) ==
  epc' = "Loop" /\ retErr' = retErr

AfterPreDumpTables(ok) ==
  IF ok THEN epc' = "Loop" /\ retErr' = retErr
        ELSE ReturnErr

\* PreDumpTables returns; an error is returned by Dump.
PreDumpTablesReturn ==
  /\ epc = "PreDumpTablesWait"
  /\ \E ok \in BOOLEAN :
       /\ preState' = IF ok THEN "ok" ELSE "failed"
       /\ AfterPreDumpTables(ok)
  /\ UNCHANGED <<tables, ignoreData, concurrency, hooker, idx, structState,
                 postState, semChan, semClosed, wg, rowChan,
                 dumpTask, readTask, sentRows, taskErr, compTask, doneSent>>
  /\ UNCHANGED notEng

IgnoredMutant(t) == FALSE

\* "tableConfig != nil && tableConfig.IgnoreData": the table has a
\* configuration and ignore_data is set in it.
Ignored(t) == t \in ignoreData

\* An ignored table: "continue", before anything is made for it.
LoopSkip ==
  /\ epc = "Loop"
  /\ idx <= Len(tables)
  /\ Ignored(tables[idx])
  /\ idx' = idx + 1
  /\ UNCHANGED <<tables, ignoreData, concurrency, hooker, epc, retErr,
                 structState, preState, postState, semChan, semClosed, wg,
                 rowChan, dumpTask, readTask, sentRows, taskErr, compTask,
                 doneSent>>
  /\ UNCHANGED notEng

SemZeroUnlimitedMutant == concurrency = 0 \/ semChan < concurrency

\* "semChan <- struct{}{}" on make(chan struct{}, concurrency) can proceed:
\* there is room in the buffer (with capacity 0 it needs a receiver, and the
\* only receivers are the deferred releases, which receive buffered values).
SemCanSendMutant == TRUE

SemCanSend == semChan < concurrency

\* rowChan := make(...); semChan <- struct{}{}; wg.Add(1); go dump; go read
LoopLaunch ==
  /\ epc = "Loop"
  /\ idx <= Len(tables)
  /\ ~Ignored(tables[idx])
  /\ SemCanSend
  /\ LET t == tables[idx] IN
       /\ rowChan' = [rowChan EXCEPT ![t] = "open"]
       /\ dumpTask' = [dumpTask EXCEPT ![t] = "spawned"]
       /\ readTask' = [readTask EXCEPT ![t] = "spawned"]
  /\ semChan' = semChan + 1
  /\ wg' = wg + 1
  /\ idx' = idx + 1
  /\ UNCHANGED <<tables, ignoreData, concurrency, hooker, epc, retErr,
                 structState, preState, postState, semClosed, sentRows,
                 taskErr, compTask, doneSent>>
  /\ UNCHANGED notEng

\* After the loop: "go func() { wg.Wait() ... }()" and "return nil".
LoopEnd ==
  /\ epc = "Loop"
  /\ idx > Len(tables)
  /\ compTask' = "Wait"
  /\ epc' = "Returned"
  /\ retErr' = "nil"
  /\ UNCHANGED <<tables, ignoreData, concurrency, hooker, idx,
                 structState, preState, postState, semChan, semClosed, wg,
                 rowChan, dumpTask, readTask, sentRows, taskErr, doneSent>>
  /\ UNCHANGED notEng

\* The dump goroutine is scheduled and calls e.DumpTable(tableName, rowChan).
DumpStart(t) ==
  /\ dumpTask[t] = "spawned"
  /\ dumpTask' = [dumpTask EXCEPT ![t] = "DumpTable"]
  /\ UNCHANGED <<tables, ignoreData, concurrency, hooker, epc, idx, retErr,
                 structState, preState, postState, semChan, semClosed, wg,
                 rowChan, readTask, sentRows, taskErr, compTask, doneSent>>
  /\ UNCHANGED notEng

\* The read goroutine is scheduled and calls e.reader.ReadTable(...).
ReadStart(t) ==
  /\ readTask[t] = "spawned"
  /\ readTask' = [readTask EXCEPT ![t] = "ReadTable"]
  /\ UNCHANGED <<tables, ignoreData, concurrency, hooker, epc, idx, retErr,
                 structState, preState, postState, semChan, semClosed, wg,
                 rowChan, dumpTask, sentRows, taskErr, compTask, doneSent>>
  /\ UNCHANGED notEng

\* One row crosses the unbuffered rowChan: the reader's send meets the
\* receive of DumpTable. A table has any number of rows; what is kept is
\* whether one has crossed.
RowTransfer(t) ==
  /\ readTask[t] = "ReadTable"
  /\ dumpTask[t] = "DumpTable"
  /\ rowChan[t] = "open"
  /\ sentRows' = [sentRows EXCEPT ![t] = TRUE]
  /\ UNCHANGED <<tables, ignoreData, concurrency, hooker, epc, idx, retErr,
                 structState, preState, postState, semChan, semClosed, wg,
                 rowChan, dumpTask, readTask, taskErr, compTask, doneSent>>
  /\ UNCHANGED notEng

\* The state of rowChan once ReadTable is on its way out: the close is
\* deferred, so it runs on the error returns too.
ChanAfterReadMutant(err) == IF err THEN "open" ELSE "closed"

ChanAfterRead(err) == "closed"

\* ReadTable ends, with or without an error: "defer close(rowChan)" runs.
ReadClose(t) ==
  /\ readTask[t] = "ReadTable"
  /\ readTask' = [readTask EXCEPT ![t] = "closed"]
  /\ \E err \in BOOLEAN :
       /\ rowChan' = [rowChan EXCEPT ![t] = ChanAfterRead(err)]
       /\ taskErr' = [taskErr EXCEPT ![t] = IF err THEN @ \cup {"read"} ELSE @]
  /\ UNCHANGED <<tables, ignoreData, concurrency, hooker, epc, idx, retErr,
                 structState, preState, postState, semChan, semClosed, wg,
                 dumpTask, sentRows, compTask, doneSent>>
  /\ UNCHANGED notEng

\* ReadTable returns to the read goroutine, which logs the error and ends.
ReadReturn(t) ==
  /\ readTask[t] = "closed"
  /\ readTask' = [readTask EXCEPT ![t] = "returned"]
  /\ UNCHANGED <<tables, ignoreData, concurrency, hooker, epc, idx, retErr,
                 structState, preState, postState, semChan, semClosed, wg,
                 rowChan, dumpTask, sentRows, taskErr, compTask, doneSent>>
  /\ UNCHANGED notEng

\* DumpTable sees rowChan closed and returns nil.
DumpDrained(t) ==
  /\ dumpTask[t] = "DumpTable"
  /\ rowChan[t] = "closed"
  /\ dumpTask' = [dumpTask EXCEPT ![t] = "returned"]
  /\ UNCHANGED <<tables, ignoreData, concurrency, hooker, epc, idx, retErr,
                 structState, preState, postState, semChan, semClosed, wg,
                 rowChan, readTask, sentRows, taskErr, compTask, doneSent>>
  /\ UNCHANGED notEng

\* DumpTable returns an error (a failed write), possibly before rowChan is
\* closed; the goroutine logs it.
DumpFail(t) ==
  /\ dumpTask[t] = "DumpTable"
  /\ dumpTask' = [dumpTask EXCEPT ![t] = "returned"]
  /\ taskErr' = [taskErr EXCEPT ![t] = @ \cup {"dump"}]
  /\ UNCHANGED <<tables, ignoreData, concurrency, hooker, epc, idx, retErr,
                 structState, preState, postState, semChan, semClosed, wg,
                 rowChan, readTask, sentRows, compTask, doneSent>>
  /\ UNCHANGED notEng

\* The deferred calls of the dump goroutine run however DumpTable returned.
ReleasesSlotMutant(t) == "dump" \notin taskErr[t]

ReleasesSlot(t) == TRUE

\* First deferred call of the dump goroutine: "<-semChan".
DumpRelease(t) ==
  /\ dumpTask[t] = "returned"
  /\ ReleasesSlot(t)
  /\ semChan > 0
  /\ semChan' = semChan - 1
  /\ dumpTask' = [dumpTask EXCEPT ![t] = "released"]
  /\ UNCHANGED <<tables, ignoreData, concurrency, hooker, epc, idx, retErr,
                 structState, preState, postState, semClosed, wg,
                 rowChan, readTask, sentRows, taskErr, compTask, doneSent>>
  /\ UNCHANGED notEng

\* wg.Done() on a counter of n
WgDoneMutant(n) == n

WgDone(n) == n - 1

\* Second deferred call of the dump goroutine: wg.Done().
DumpWgDone(t) ==
  /\ dumpTask[t] = "released"
  /\ wg' = WgDone(wg)
  /\ dumpTask' = [dumpTask EXCEPT ![t] = "done"]
  /\ UNCHANGED <<tables, ignoreData, concurrency, hooker, epc, idx, retErr,
                 structState, preState, postState, semChan, semClosed,
                 rowChan, readTask, sentRows, taskErr, compTask, doneSent>>
  /\ UNCHANGED notEng

\* wg.Wait() returns when the counter is zero.
WgWaitReturnsMutant == TRUE

WgWaitReturns == wg = 0

\* Completion goroutine: wg.Wait(); close(semChan)
CompWait ==
  /\ compTask = "Wait"
  /\ WgWaitReturns
  /\ semClosed' = TRUE
  /\ compTask' = "PostDumpTables"
  /\ UNCHANGED <<tables, ignoreData, concurrency, hooker, epc, idx, retErr,
                 structState, preState, postState, semChan, wg, rowChan,
                 dumpTask, readTask, sentRows, taskErr, doneSent>>
  /\ UNCHANGED notEng

\* Completion goroutine: if the Dumper is a Hooker, PostDumpTables(tables).
PostDumpTablesCall ==
  /\ compTask = "PostDumpTables"
  /\ IF hooker
       THEN postState' = "running" /\ compTask' = "PostDumpTablesWait"
       ELSE postState' = postState /\ compTask' = "SendDone"
  /\ UNCHANGED <<tables, ignoreData, concurrency, hooker, epc, idx, retErr,
                 structState, preState, semChan, semClosed, wg, rowChan,
                 dumpTask, readTask, sentRows, taskErr, doneSent>>
  /\ UNCHANGED notEng

\* PostDumpTables returns; its error is only logged.
PostDumpTablesReturn ==
  /\ compTask = "PostDumpTablesWait"
  /\ \E ok \in BOOLEAN : postState' = IF ok THEN "ok" ELSE "failed"
  /\ compTask' = "SendDone"
  /\ UNCHANGED <<tables, ignoreData, concurrency, hooker, epc, idx, retErr,
                 structState, preState, semChan, semClosed, wg, rowChan,
                 dumpTask, readTask, sentRows, taskErr, doneSent>>
  /\ UNCHANGED notEng

\* The completion goroutine after "done <- struct{}{}": it ends.
AfterDoneSendMutant == IF doneSent < 2 THEN "SendDone" ELSE "Finished"

AfterDoneSend == "Finished"

\* "done <- struct{}{}" meets the caller's "<-done"; the caller reaches its
\* receive only after Dump has returned nil (cmd: failOnError(...); <-done).
DoneSend ==
  /\ compTask = "SendDone"
  /\ epc = "Returned"
  /\ retErr = "nil"
  /\ doneSent' = doneSent + 1
  /\ compTask' = AfterDoneSend
  /\ UNCHANGED <<tables, ignoreData, concurrency, hooker, epc, idx, retErr,
                 structState, preState, postState, semChan, semClosed, wg,
                 rowChan, dumpTask, readTask, sentRows, taskErr>>
  /\ UNCHANGED notEng

EngNext ==
  \/ GetStructure
  \/ DumpStructureCall
  \/ DumpStructureReturn
  \/ GetTables
  \/ PreDumpTablesCall
  \/ PreDumpTablesReturn
  \/ LoopSkip
  \/ LoopLaunch
  \/ LoopEnd
  \/ \E t \in TableIds : DumpStart(t)
  \/ \E t \in TableIds : ReadStart(t)
  \/ \E t \in TableIds : RowTransfer(t)
  \/ \E t \in TableIds : ReadClose(t)
  \/ \E t \in TableIds : ReadReturn(t)
  \/ \E t \in TableIds : DumpDrained(t)
  \/ \E t \in TableIds : DumpFail(t)
  \/ \E t \in TableIds : DumpRelease(t)
  \/ \E t \in TableIds : DumpWgDone(t)
  \/ CompWait
  \/ PostDumpTablesCall
  \/ PostDumpTablesReturn
  \/ DoneSend

\* =========================================================================
\* The anonymiser's transformation of one row
\* (src/pkg/anonymiser/anonymiser.go, the loop body of the goroutine)
\* =========================================================================

\* A cell of a row: the Go value the driver scanned.
IntC(s) == [k |-> "int64", v |-> s]
BytesC(s) == [k |-> "bytes", v |-> s]
StrC(s) == [k |-> "string", v |-> s]
NilC == [k |-> "nil", v |-> ""]
\* a value of a type database.ToSQLStringValue does not handle
OtherC == [k |-> "other", v |-> ""]

literalPrefix == "literal:"
conditionalPrefix == "cond:"

\* A directive string, split where strings.HasPrefix / TrimPrefix split it.
Directive(prefix, rest) == [prefix |-> prefix, rest |-> rest]

\* The conditional rules used: the source text and what expr.Compile makes of
\* it. A program is "test ? then : else" over calls, or a single call, or a
\* constant; "compiles" is FALSE for a text expr.Compile rejects.
Call(fn, arg) == [fn |-> fn, arg |-> arg]

NoCall == Call("", "")

Program(compiles, test, col, thenCall, elseCall) ==
  [compiles |-> compiles, test |-> test, col |-> col,
   then |-> thenCall, else |-> elseCall]

Compile(text) ==
  CASE text = "Anon(\"FirstName\")" ->
         Program(TRUE, "call", "", Call("Anon", "FirstName"), NoCall)
    [] text = "Literal(\"s\")" ->
         Program(TRUE, "call", "", Call("Literal", "s"), NoCall)
    [] text = "Skip()" ->
         Program(TRUE, "call", "", Call("Skip", ""), NoCall)
    [] text = "IsNil(row, \"email\") ? Literal(\"N/A\") : Skip()" ->
         Program(TRUE, "IsNil", "email", Call("Literal", "N/A"), Call("Skip", ""))
    [] text = "Value(row, \"email\") == \"\" ? Skip() : Anon(\"FirstName\")" ->
         Program(TRUE, "ValueEmpty", "email", Call("Skip", ""), Call("Anon", "FirstName"))
    [] text = "1" ->
         Program(TRUE, "const", "", NoCall, NoCall)
    [] OTHER ->
         Program(FALSE, "", "", NoCall, NoCall)

RuleTexts ==
  { "Anon(\"FirstName\")", "Literal(\"s\")", "Skip()",
    "IsNil(row, \"email\") ? Literal(\"N/A\") : Skip()",
    "Value(row, \"email\") == \"\" ? Skip() : Anon(\"FirstName\")",
    "1", "Anon(" }

\* Anonymise(fakerType): the value of the faker of that name, with a random
\* suffix for EmailAddress and UserName; "" when no faker has the name.
Anonymise(fakerType) ==
  CASE fakerType = "FirstName" -> "<FirstName>"
    [] fakerType = "EmailAddress" -> "<EmailAddress>.<hex>"
    [] fakerType = "UserName" -> "<UserName>.<hex>"
    [] OTHER -> ""

\* option.Option, and the other things expr.Run can produce.
Some(v) == [tag |-> "some", v |-> v]
None == [tag |-> "none", v |-> ""]
RuntimeError == [tag |-> "error", v |-> ""]
NotAnOption == [tag |-> "other", v |-> ""]

\* The names the env map of the goroutine binds.
EnvBindings == {"row", "column", "Value", "Anon", "Skip"}

\* Calling fn(arg) in an environment binding the names in env.
RunCall(c, env) ==
  CASE c.fn \notin env -> RuntimeError
    [] c.fn = "Anon" -> Some(Anonymise(c.arg))
    [] c.fn = "Literal" -> Some(c.arg)
    [] c.fn = "Skip" -> None
    [] OTHER -> RuntimeError

\* expr.Run(program, env) on a row. Value is row[columnName].([]uint8): the
\* type assertion panics on any other cell and the vm turns the panic into an
\* error. A nil program (the rule did not compile) is an error too.
Run(compiled, p, row, env) ==
  CASE ~compiled -> RuntimeError
    [] p.test = "call" -> RunCall(p.then, env)
    [] p.test = "const" -> NotAnOption
    [] p.test = "IsNil" ->
         IF "IsNil" \notin env THEN RuntimeError
         ELSE IF p.col \notin DOMAIN row \/ row[p.col].k = "nil"
              THEN RunCall(p.then, env) ELSE RunCall(p.else, env)
    [] p.test = "ValueEmpty" ->
         IF "Value" \notin env THEN RuntimeError
         ELSE IF p.col \notin DOMAIN row \/ row[p.col].k # "bytes"
              THEN RuntimeError
         ELSE IF row[p.col].v = "" THEN RunCall(p.then, env)
         ELSE RunCall(p.else, env)
    [] OTHER -> RuntimeError

\* row[column] = value on a Go map: the key is added when it is missing.
SetCell(row, column, value) ==
  [c \in DOMAIN row \cup {column} |-> IF c = column THEN value ELSE row[c]]

\* What the loop body does to the row for one (column, fakerType), given the
\* result of expr.Run for a conditional rule.
ApplyDirective(row, column, d, out) ==
  CASE d.prefix = literalPrefix -> SetCell(row, column, StrC(d.rest))
    [] d.prefix = conditionalPrefix ->
         IF out.tag = "some" THEN SetCell(row, column, StrC(out.v)) ELSE row
    [] OTHER -> SetCell(row, column, StrC(Anonymise(d.rest)))

Directives ==
  {Directive(literalPrefix, "x@y"), Directive("", "EmailAddress"),
   Directive("", "NoSuchFaker")}
  \cup {Directive(conditionalPrefix, t) : t \in RuleTexts}

AnonColumns == {"email", "name"}

InputRows ==
  { [id |-> IntC("1"), email |-> BytesC("a@b")],
    [id |-> IntC("1"), email |-> NilC],
    [id |-> IntC("1"), email |-> BytesC("")],
    [id |-> IntC("1"), name |-> BytesC("ann")] }

AnInit ==
  /\ anRow0 \in InputRows
  /\ anRow = anRow0
  /\ \E S \in SUBSET AnonColumns \ {{}} : anSpec \in [S -> Directives]
  /\ anCompiled = {}
  /\ anTodo = {}
  /\ anPc = "Compile"
  /\ anOut = << >>

\* anonymiser.ReadTable, "Compile conditional anonymisation rules": a rule
\* that compiles is stored under RuleKey(table, column); one that does not is
\* logged and skipped.
CompileRules ==
  /\ anPc = "Compile"
  /\ anCompiled' = {c \in DOMAIN anSpec :
                      /\ anSpec[c].prefix = conditionalPrefix
                      /\ Compile(anSpec[c].rest).compiles}
  /\ anTodo' = DOMAIN anSpec
  /\ anPc' = "Loop"
  /\ UNCHANGED <<anRow0, anRow, anSpec, anOut>>
  /\ UNCHANGED notAn

\* The result of expr.Run for column c on the current row (None for a
\* directive that is not conditional: it is not run).
RunRule(c) ==
  IF anSpec[c].prefix = conditionalPrefix
    THEN Run(c \in anCompiled, Compile(anSpec[c].rest), anRow, EnvBindings)
    ELSE None

PanicsMutant(out) == out.tag \in {"other", "error"}

\* "if err != nil { ...; continue }" then "opt := output.(*option.Option)":
\* an error of expr.Run goes on with the next directive, and only a result
\* that is not an *option.Option makes the type assertion panic.
Panics(out) == out.tag = "other"

\* One iteration of "for column, fakerType := range table.Anonymise"; Go
\* visits the keys of a map in an unspecified order. output.(*option.Option)
\* panics when the rule returned something else.
ApplyColumn(c) ==
  /\ anPc = "Loop"
  /\ c \in anTodo
  /\ LET out == RunRule(c) IN
       /\ anOut' = [x \in DOMAIN anOut \cup {c} |->
                      IF x = c THEN [before |-> anRow, out |-> out]
                      ELSE anOut[x]]
       /\ IF anSpec[c].prefix = conditionalPrefix /\ Panics(out)
            THEN anPc' = "Panicked" /\ anRow' = anRow
            ELSE anPc' = anPc /\ anRow' = ApplyDirective(anRow, c, anSpec[c], out)
  /\ anTodo' = anTodo \ {c}
  /\ UNCHANGED <<anRow0, anSpec, anCompiled>>
  /\ UNCHANGED notAn

\* "rowChan <- row" after the last directive.
SendRow ==
  /\ anPc = "Loop"
  /\ anTodo = {}
  /\ anPc' = "Sent"
  /\ UNCHANGED <<anRow0, anRow, anSpec, anCompiled, anTodo, anOut>>
  /\ UNCHANGED notAn

AnNext ==
  \/ CompileRules
  \/ \E c \in AnonColumns : ApplyColumn(c)
  \/ SendRow

\* =========================================================================
\* sqlReader.ReadTable / publishRows (src/unnamed/part_000) and
\* anonymiser.ReadTable (src/pkg/anonymiser/anonymiser.go)
\* =========================================================================

\* rows returned by the query of the table being read
MaxParents == 2

\* The table read and the tables its relationships reference.
RdTable == "orders"

Users ==
  << [id |-> IntC("1"), name |-> BytesC("ann")],
     [id |-> IntC("1"), name |-> BytesC("bob")],
     [id |-> IntC("2"), name |-> BytesC("cy")] >>

Items == << [id |-> IntC("1"), name |-> BytesC("pen")] >>

TableRows(T) ==
  CASE T = "users" -> Users
    [] T = "items" -> Items
    [] OTHER -> << >>

\* reader.RelationshipOpt
RelUsers == [Table |-> "orders", ForeignKey |-> "user_id",
             ReferencedTable |-> "users", ReferencedKey |-> "id"]
RelItems == [Table |-> "orders", ForeignKey |-> "item_id",
             ReferencedTable |-> "items", ReferencedKey |-> "id"]

RelationshipLists ==
  { << >>, <<RelUsers>>, <<RelUsers, RelItems>>, <<RelItems, RelUsers>> }

OrderRow(i, u) ==
  [id |-> IntC(ToString(i)), user_id |-> u, item_id |-> IntC("1"),
   email |-> BytesC("a@b")]

ForeignKeyCells == {IntC("1"), NilC, OtherC}

\* database.ToSQLStringValue: the SQL literal of a cell, "error" for a type it
\* does not represent.
ToSQLStringValue(c) ==
  CASE c.k = "other" -> [err |-> TRUE, s |-> ""]
    [] c.k = "nil" -> [err |-> FALSE, s |-> "NULL"]
    [] OTHER -> [err |-> FALSE, s |-> c.v]

\* The rows "SELECT ... FROM T WHERE ReferencedKey = 'rowValue'" returns.
RelationshipRows(r, rowValue) ==
  SelectSeq(TableRows(r.ReferencedTable),
            LAMBDA c : c[r.ReferencedKey].k # "nil" /\ c[r.ReferencedKey].v = rowValue)

\* table.Anonymise of the table read in "transform" mode.
RdAnonymise == [email |-> Directive(literalPrefix, "x@y")]

\* The goroutine's loop body on one row under RdAnonymise.
TransformRow(row) == ApplyDirective(row, "email", RdAnonymise["email"], None)

RdInit ==
  /\ rdMode \in {"direct", "delegate", "transform"}
  /\ \E n \in 0..MaxParents : \E f \in [1..n -> ForeignKeyCells] :
       rdRows = [i \in 1..n |-> OrderRow(i, f[i])]
  /\ rdRels \in RelationshipLists
  /\ rpc = IF rdMode = "direct" THEN "Enter" ELSE "Idle"
  /\ ri = 1
  /\ rj = 1
  /\ rk = 1
  /\ rkids = << >>
  /\ rerr = "nil"
  /\ colCache \in {{}, {"users"}}
  /\ apc = IF rdMode = "direct" THEN "none" ELSE "Enter"
  /\ aerr = "none"
  /\ gpc = "none"
  /\ gRow = << >>
  /\ rawCloses = 0
  /\ sinkCloses = 0
  /\ cpc = "Recv"
  /\ emitted = << >>
  /\ stream = << >>
  /\ rdLost = {}
\* ---- sqlReader.ReadTable

\* "return errors.Wrap(err, ...)" in ReadTable or publishRows: control goes
\* to the deferred close.
RdFail ==
  /\ rerr' = "err"
  /\ rpc' = "Close"

\* s.GetColumns(tableName): the cached columns, or the engine's answer, which
\* is stored on success.
RdGetColumns ==
  /\ rpc = "Enter"
  /\ \E ok \in BOOLEAN :
       /\ ~ok => RdTable \notin colCache
       /\ IF ok THEN /\ colCache' = colCache \cup {RdTable}
                     /\ rpc' = "Query"
                     /\ rerr' = rerr
               ELSE RdFail /\ colCache' = colCache
  /\ UNCHANGED <<rdMode, rdRows, rdRels, ri, rj, rk, rkids, apc, aerr, gpc,
                 gRow, rawCloses, sinkCloses, cpc, emitted, stream, rdLost>>
  /\ UNCHANGED notRd

\* query.RunWith(s.GetConnection()).Query()
RdQuery ==
  /\ rpc = "Query"
  /\ \E ok \in BOOLEAN :
       IF ok THEN rpc' = "ColumnTypes" /\ rerr' = rerr
             ELSE RdFail
  /\ UNCHANGED <<rdMode, rdRows, rdRels, ri, rj, rk, rkids, colCache, apc,
                 aerr, gpc, gRow, rawCloses, sinkCloses, cpc, emitted,
                 stream, rdLost>>
  /\ UNCHANGED notRd

\* publishRows of the table: rows.ColumnTypes()
RdColumnTypes ==
  /\ rpc = "ColumnTypes"
  /\ \E ok \in BOOLEAN :
       IF ok THEN rpc' = "Next" /\ rerr' = rerr
             ELSE RdFail
  /\ UNCHANGED <<rdMode, rdRows, rdRels, ri, rj, rk, rkids, colCache, apc,
                 aerr, gpc, gRow, rawCloses, sinkCloses, cpc, emitted,
                 stream, rdLost>>
  /\ UNCHANGED notRd

\* Where publishRows goes once a row of the table is scanned.
AfterScanMutant == "SendParent"

AfterScan == "Rel"

\* What publishRows does when rows.Scan fails on a row of the table.
OnScanErrorMutant ==
  RdFail /\ ri' = ri

\* "log...Warning("Failed to fetch row"); continue": on to rows.Next().
OnScanError ==
  rpc' = "Next" /\ ri' = ri + 1 /\ rerr' = rerr

\* "for rows.Next()": the end of the rows returns nil; a row whose Scan fails
\* is logged and skipped; otherwise the relationships are expanded.
RdNext ==
  /\ rpc = "Next"
  /\ IF ri > Len(rdRows)
       THEN rpc' = "Close" /\ UNCHANGED <<ri, rj, rerr, rdLost>>
       ELSE \E ok \in BOOLEAN :
              IF ok THEN /\ rpc' = AfterScan /\ rj' = 1 /\ ri' = ri
                         /\ UNCHANGED <<rerr, rdLost>>
                    ELSE /\ OnScanError
                         /\ rdLost' = rdLost \cup {<<ri, 0, 0>>}
                         /\ rj' = rj
  /\ UNCHANGED <<rdMode, rdRows, rdRels, rk, rkids, colCache, apc,
                 aerr, gpc, gRow, rawCloses, sinkCloses, cpc, emitted,
                 stream>>
  /\ UNCHANGED notRd

\* "for _, r := range opts.Relationships": one relationship of the current
\* row. GetColumns of the referenced table or the relationship query failing
\* returns the error; a foreign key ToSQLStringValue rejects is logged and the
\* relationship skipped ("continue"); the error of the nested publishRows (its
\* rows.ColumnTypes()) is logged and the loop goes on.
RdRel ==
  /\ rpc = "Rel"
  /\ IF rj > Len(rdRels)
       THEN /\ rpc' = "SendParent"
            /\ UNCHANGED <<rj, rk, rkids, rerr, colCache, rdLost>>
       ELSE LET r == rdRels[rj]
                rowValue == ToSQLStringValue(rdRows[ri][r.ForeignKey])
            IN \E outcome \in {"columns", "query", "types", "ok"} :
                 CASE outcome = "columns" ->
                        /\ r.ReferencedTable \notin colCache
                        /\ RdFail
                        /\ UNCHANGED <<rj, rk, rkids, colCache, rdLost>>
                   [] outcome = "query" ->
                        /\ ~rowValue.err
                        /\ RdFail
                        /\ colCache' = colCache \cup {r.ReferencedTable}
                        /\ UNCHANGED <<rj, rk, rkids, rdLost>>
                   [] outcome = "types" ->
                        /\ ~rowValue.err
                        /\ rj' = rj + 1
                        /\ rpc' = "Rel"
                        /\ rdLost' = rdLost \cup {<<ri, rj, 0>>}
                        /\ colCache' = colCache \cup {r.ReferencedTable}
                        /\ UNCHANGED <<rk, rkids, rerr>>
                   [] outcome = "ok" ->
                        /\ colCache' = colCache \cup {r.ReferencedTable}
                        /\ IF rowValue.err
                             THEN /\ rj' = rj + 1
                                  /\ rpc' = "Rel"
                                  /\ UNCHANGED <<rk, rkids>>
                             ELSE /\ rkids' = RelationshipRows(r, rowValue.s)
                                  /\ rk' = 1
                                  /\ rpc' = "Child"
                                  /\ rj' = rj
                        /\ UNCHANGED <<rerr, rdLost>>
  /\ UNCHANGED <<rdMode, rdRows, rdRels, ri, apc, aerr, gpc, gRow, rawCloses,
                 sinkCloses, cpc, emitted, stream>>
  /\ UNCHANGED notRd

\* The nested publishRows (relationshipOpts has no relationships): the end of
\* the rows returns to the relationship loop; a row whose Scan fails is
\* skipped; otherwise the row is sent.
RdChild ==
  /\ rpc = "Child"
  /\ IF rk > Len(rkids)
       THEN /\ rpc' = "Rel"
            /\ rj' = rj + 1
            /\ UNCHANGED <<rk, rdLost>>
       ELSE \E ok \in BOOLEAN :
              IF ok THEN rpc' = "SendChild" /\ UNCHANGED <<rj, rk, rdLost>>
                    ELSE /\ rpc' = "Child"
                         /\ rk' = rk + 1
                         /\ rdLost' = rdLost \cup {<<ri, rj, rk>>}
                         /\ rj' = rj
  /\ UNCHANGED <<rdMode, rdRows, rdRels, ri, rkids, rerr, colCache, apc, aerr,
                 gpc, gRow, rawCloses, sinkCloses, cpc, emitted, stream>>
  /\ UNCHANGED notRd

\* The value publishRows is blocked sending ("rowChan <- table"), tagged with
\* the row and relationship it belongs to.
Sending ==
  IF rpc = "SendChild"
    THEN [tbl |-> rdRels[rj].ReferencedTable, row |-> rkids[rk],
          parent |-> ri, rel |-> rj, kid |-> rk]
    ELSE [tbl |-> RdTable, row |-> rdRows[ri],
          parent |-> ri, rel |-> 0, kid |-> 0]

\* publishRows after its send was received.
RdSent ==
  /\ emitted' = Append(emitted, Sending)
  /\ IF rpc = "SendChild"
       THEN rpc' = "Child" /\ rk' = rk + 1 /\ ri' = ri
       ELSE rpc' = "Next" /\ ri' = ri + 1 /\ rk' = rk

\* The send of publishRows meets the receive of the consumer of the sink
\* (the reader was given the caller's channel).
SendToSink ==
  /\ rdMode \in {"direct", "delegate"}
  /\ rpc \in {"SendChild", "SendParent"}
  /\ cpc = "Recv"
  /\ sinkCloses = 0
  /\ RdSent
  /\ stream' = Append(stream, Sending.row)
  /\ UNCHANGED <<rdMode, rdRows, rdRels, rj, rkids, rerr, colCache, apc, aerr,
                 gpc, gRow, rawCloses, sinkCloses, cpc, rdLost>>
  /\ UNCHANGED notRd

\* Where the goroutine is after the directives were applied to a row: every
\* "continue" of the loop body belongs to the loop over the directives, so
\* the row is always sent.
AfterTransformMutant == "Recv"

AfterTransform == "Send"

\* The send of publishRows meets "row, more := <-rawChan" of the anonymiser's
\* goroutine, which then applies the directives to the row.
SendToRaw ==
  /\ rdMode = "transform"
  /\ rpc \in {"SendChild", "SendParent"}
  /\ gpc = "Recv"
  /\ rawCloses = 0
  /\ RdSent
  /\ gRow' = TransformRow(Sending.row)
  /\ gpc' = AfterTransform
  /\ UNCHANGED <<rdMode, rdRows, rdRels, rj, rkids, rerr, colCache, apc, aerr,
                 rawCloses, sinkCloses, cpc, stream, rdLost>>
  /\ UNCHANGED notRd

\* How many times ReadTable closes its channel on the way out.
ClosesOnReturnMutant(err) == IF err = "err" THEN 0 ELSE 1

ClosesOnReturn(err) == 1

\* "defer close(rowChan)" of sqlReader.ReadTable.
RdClose ==
  /\ rpc = "Close"
  /\ rpc' = "Return"
  /\ IF rdMode = "transform"
       THEN rawCloses' = rawCloses + ClosesOnReturn(rerr) /\ sinkCloses' = sinkCloses
       ELSE sinkCloses' = sinkCloses + ClosesOnReturn(rerr) /\ rawCloses' = rawCloses
  /\ UNCHANGED <<rdMode, rdRows, rdRels, ri, rj, rk, rkids, rerr, colCache,
                 apc, aerr, gpc, gRow, cpc, emitted, stream, rdLost>>
  /\ UNCHANGED notRd

\* sqlReader.ReadTable returns to its caller.
RdReturn ==
  /\ rpc = "Return"
  /\ rpc' = "Returned"
  /\ aerr' = IF rdMode = "direct" THEN rerr ELSE aerr
  /\ UNCHANGED <<rdMode, rdRows, rdRels, ri, rj, rk, rkids, rerr, colCache,
                 apc, gpc, gRow, rawCloses, sinkCloses, cpc, emitted, stream,
                 rdLost>>
  /\ UNCHANGED notRd

\* ---- anonymiser.ReadTable

\* No anonymise configuration for the table: the wrapped reader is called
\* with the caller's channel. Otherwise the rules are compiled, rawChan is
\* made, the goroutine is started and the wrapped reader is called with
\* rawChan.
AnonCall ==
  /\ apc = "Enter"
  /\ apc' = "Calling"
  /\ rpc' = "Enter"
  /\ gpc' = IF rdMode = "transform" THEN "Recv" ELSE gpc
  /\ UNCHANGED <<rdMode, rdRows, rdRels, ri, rj, rk, rkids, rerr, colCache,
                 aerr, gRow, rawCloses, sinkCloses, cpc, emitted, stream,
                 rdLost>>
  /\ UNCHANGED notRd

\* The wrapped ReadTable returned: anonymiser.ReadTable returns its error
\* (wrapped) or nil.
AnonReturn ==
  /\ apc = "Calling"
  /\ rpc = "Returned"
  /\ apc' = "Returned"
  /\ aerr' = rerr
  /\ UNCHANGED <<rdMode, rdRows, rdRels, rpc, ri, rj, rk, rkids, rerr,
                 colCache, gpc, gRow, rawCloses, sinkCloses, cpc, emitted,
                 stream, rdLost>>
  /\ UNCHANGED notRd

\* Goroutine: "rowChan <- row" meets the receive of the consumer.
GoSend ==
  /\ gpc = "Send"
  /\ cpc = "Recv"
  /\ sinkCloses = 0
  /\ stream' = Append(stream, gRow)
  /\ gpc' = "Recv"
  /\ UNCHANGED <<rdMode, rdRows, rdRels, rpc, ri, rj, rk, rkids, rerr,
                 colCache, apc, aerr, gRow, rawCloses, sinkCloses, cpc,
                 emitted, rdLost>>
  /\ UNCHANGED notRd

\* "row, more := <-rawChan" gives more = false: rawChan is closed (and, being
\* unbuffered, empty).
NoMoreMutant == TRUE

NoMore == rawCloses > 0

\* Goroutine: "if !more { close(rowChan); return }".
GoClose ==
  /\ gpc = "Recv"
  /\ NoMore
  /\ sinkCloses' = sinkCloses + 1
  /\ gpc' = "Ended"
  /\ UNCHANGED <<rdMode, rdRows, rdRels, rpc, ri, rj, rk, rkids, rerr,
                 colCache, apc, aerr, gRow, rawCloses, cpc, emitted, stream,
                 rdLost>>
  /\ UNCHANGED notRd

\* ---- the consumer of the sink (Dumper.DumpTable)

\* The consumer sees the sink closed and returns.
ConsumerDrained ==
  /\ cpc = "Recv"
  /\ sinkCloses > 0
  /\ cpc' = "Drained"
  /\ UNCHANGED <<rdMode, rdRows, rdRels, rpc, ri, rj, rk, rkids, rerr,
                 colCache, apc, aerr, gpc, gRow, rawCloses, sinkCloses,
                 emitted, stream, rdLost>>
  /\ UNCHANGED notRd

\* The consumer returns with an error before the sink is closed.
ConsumerStop ==
  /\ cpc = "Recv"
  /\ sinkCloses = 0
  /\ cpc' = "Stopped"
  /\ UNCHANGED <<rdMode, rdRows, rdRels, rpc, ri, rj, rk, rkids, rerr,
                 colCache, apc, aerr, gpc, gRow, rawCloses, sinkCloses,
                 emitted, stream, rdLost>>
  /\ UNCHANGED notRd

ReadNext ==
  \/ RdGetColumns
  \/ RdQuery
  \/ RdColumnTypes
  \/ RdNext
  \/ RdRel
  \/ RdChild
  \/ SendToSink
  \/ SendToRaw
  \/ RdClose
  \/ RdReturn
  \/ AnonCall
  \/ AnonReturn
  \/ GoSend
  \/ GoClose
  \/ ConsumerDrained
  \/ ConsumerStop

\* =========================================================================
\* storage.GetViewDefinitions (src/pkg/reader/mysql/reader.go) and
\* Engine.DumpViews / readAndDumpViews (src/pkg/dumper/engine/engine.go).
\* A text is a sequence of characters, each a one-character string; the
\* backquote is written BT.
\* =========================================================================

\* the character U+0060, which quotes identifiers
BT == "BACKQUOTE"

\* views the database holds
MaxViews == 2

\* int(^uint(0) >> 1) where int has 32 bits
MaxInt == 2147483647

ViewNames == {"u", "v", "w"}

\* VIEW_DEFINITION of each view
ViewBody(name) ==
  CASE name = "u" -> <<BT, "a", "b", BT, ".", BT, "t", BT>>
    [] name = "v" -> <<BT, "c", BT, ".", BT, "t", BT, ",",
                       BT, "a", "b", BT, ".", BT, "u", BT>>
    [] OTHER -> <<"t">>

Prefixes == { << >>, <<"a">>, <<"a", "b">>, <<".">>, <<"(">>, <<"c">> }

Weights == {1, 2, MaxInt}

\* getViewWeight
getViewWeight(viewName) ==
  IF viewName \in DOMAIN vwWeights THEN vwWeights[viewName] ELSE MaxInt

\* The less function given to sort.Slice.
LessMutant(a, b) == a.weight > b.weight

Less(a, b) == a.weight < b.weight

\* sort.Slice: the result is a permutation of the slice in which no element
\* is less than an earlier one; "the sort is not guaranteed to be stable", so
\* the order of elements neither of which is less is not determined.
SortResults(s) ==
  LET n == Len(s)
      Perms == {p \in [1..n -> 1..n] : \A i, j \in 1..n : p[i] = p[j] => i = j}
  IN { q \in {[i \in 1..n |-> s[p[i]]] : p \in Perms} :
         \A i, j \in 1..n : i < j => ~Less(q[j], q[i]) }

\* storage.QuoteIdentifier: "`" + name with every "`" doubled + "`"
RECURSIVE DoubleTicks(_)
DoubleTicks(name) ==
  IF name = << >> THEN << >>
  ELSE (IF Head(name) = BT THEN <<BT, BT>> ELSE <<Head(name)>>)
       \o DoubleTicks(Tail(name))

QuoteIdentifier(name) == <<BT>> \o DoubleTicks(name) \o <<BT>>

\* The comment block getPreamble returns, shortened to its first line.
Preamble == <<"#", "\n">>

\* "CREATE OR REPLACE VIEW %s AS %s" followed by ";\n"
ViewStmt(viewName, viewStmt) ==
  <<"C", "R", "E", "A", "T", "E", " ", "O", "R", " ", "R", "E", "P", "L", "A",
    "C", "E", " ", "V", "I", "E", "W", " ">>
  \o QuoteIdentifier(<<viewName>>) \o <<" ", "A", "S", " ">> \o viewStmt
  \o <<";", "\n">>

\* strings.Index: the first position where sub occurs in s, 0 when it does not
IndexOf(s, sub) ==
  LET At == {i \in 1..(Len(s) - Len(sub) + 1) :
               SubSeq(s, i, i + Len(sub) - 1) = sub}
  IN IF At = {} THEN 0 ELSE CHOOSE i \in At : \A j \in At : i <= j

\* replacePrefix: strings.Replace(input, sourcePrefix, destinationPrefix, 1)
replacePrefix(input, sourcePrefix, destinationPrefix) ==
  LET i == IndexOf(input, sourcePrefix)
  IN IF i = 0 THEN input
     ELSE SubSeq(input, 1, i - 1) \o destinationPrefix
          \o SubSeq(input, i + Len(sourcePrefix), Len(input))

\* regexp.MustCompile of "(`<prefix>[^`]+?`)\.`[^`]+?`": the prefix is put
\* into the pattern as it is, so "(" in it opens a group nothing closes and
\* MustCompile panics.
PatternCompiles(prefix) == \A i \in DOMAIN prefix : prefix[i] # "("

\* One character of the prefix as a pattern: "." is any character but "\n".
AtomMatches(a, c) == IF a = "." THEN c # "\n" ELSE a = c

\* The first "`" of text at or after position from, 0 when there is none.
NextTick(text, from) ==
  LET At == {i \in from..Len(text) : text[i] = BT}
  IN IF At = {} THEN 0 ELSE CHOOSE i \in At : \A j \in At : i <= j

\* The end of the match of the pattern starting at pos, 0 when there is none:
\* "`", the prefix, one or more characters other than "`", "`", ".", "`",
\* one or more characters other than "`", "`".
MatchEnd(text, pos, prefix) ==
  LET n == Len(prefix)
      e1 == NextTick(text, pos + n + 1)
      e2 == NextTick(text, e1 + 3)
  IN IF \/ pos + n > Len(text)
        \/ text[pos] # BT
        \/ \E i \in 1..n : ~AtomMatches(prefix[i], text[pos + i])
       THEN 0
     ELSE IF e1 = 0 \/ e1 = pos + n + 1 THEN 0
     ELSE IF e1 + 2 > Len(text) \/ text[e1 + 1] # "." \/ text[e1 + 2] # BT
       THEN 0
     ELSE IF e2 = 0 \/ e2 = e1 + 3 THEN 0
     ELSE e2

\* The start of the leftmost match at or after pos, 0 when there is none.
NextMatch(text, pos, prefix) ==
  LET At == {i \in pos..Len(text) : MatchEnd(text, i, prefix) > 0}
  IN IF At = {} THEN 0 ELSE CHOOSE i \in At : \A j \in At : i <= j

\* r.ReplaceAllStringFunc(sql, replacePrefix(src, dst)) from position pos on:
\* the leftmost matches, not overlapping, each replaced, the text between
\* them kept.
RECURSIVE ReplaceAllFrom(_, _, _, _)
ReplaceAllFrom(text, pos, src, dst) ==
  LET m == NextMatch(text, pos, src)
      e == MatchEnd(text, m, src)
  IN IF m = 0 THEN SubSeq(text, pos, Len(text))
     ELSE SubSeq(text, pos, m - 1)
          \o replacePrefix(SubSeq(text, m, e), src, dst)
          \o ReplaceAllFrom(text, e + 1, src, dst)

\* destSQL of readAndDumpViews
DestSQL(sql, src, dst) == ReplaceAllFrom(sql, 1, src, dst)

VwInit ==
  /\ \E n \in 0..MaxViews :
       vwViews \in {s \in [1..n -> ViewNames] :
                      \A i, j \in 1..n : s[i] = s[j] => i = j}
  /\ \E S \in SUBSET {vwViews[i] : i \in DOMAIN vwViews} :
       vwWeights \in [S -> Weights]
  /\ srcPrefix \in Prefixes
  /\ dstPrefix \in {srcPrefix, <<"a">>, <<"c">>}
  /\ vpc = "GetViews"
  /\ viewsErr = FALSE
  /\ weightedViews = << >>
  /\ vi = 1
  /\ vwSql = << >>
  /\ vwStmts = << >>
  /\ dumpedSql = << >>
  /\ vwErr = FALSE
  /\ vwRet = "none"
  /\ doneTask = "none"
  /\ vwDone = 0

\* readAndDumpViews returns an error to DumpViews.
VwFail ==
  /\ vwErr' = TRUE
  /\ vpc' = "SpawnDone"

\* GetViewDefinitions: views, err := s.GetViews() and the loop building
\* weightedViews (over the nil slice when GetViews failed).
VwGetViews ==
  /\ vpc = "GetViews"
  /\ \E ok \in BOOLEAN :
       /\ viewsErr' = ~ok
       /\ weightedViews' =
            IF ok THEN [i \in DOMAIN vwViews |->
                          [name |-> vwViews[i], weight |-> getViewWeight(vwViews[i])]]
                  ELSE << >>
  /\ vpc' = "Sort"
  /\ UNCHANGED <<vwViews, vwWeights, srcPrefix, dstPrefix, vi, vwSql, vwStmts,
                 dumpedSql, vwErr, vwRet, doneTask, vwDone>>
  /\ UNCHANGED notVw

\* sort.Slice(weightedViews, less), then "if err != nil { return "", err }".
VwSort ==
  /\ vpc = "Sort"
  /\ weightedViews' \in SortResults(weightedViews)
  /\ IF viewsErr THEN VwFail ELSE vpc' = "Preamble" /\ vwErr' = vwErr
  /\ UNCHANGED <<vwViews, vwWeights, srcPrefix, dstPrefix, viewsErr, vi, vwSql,
                 vwStmts, dumpedSql, vwRet, doneTask, vwDone>>
  /\ UNCHANGED notVw

\* preamble, err := s.getPreamble(); buf := bytes.NewBufferString(preamble)
VwPreamble ==
  /\ vpc = "Preamble"
  /\ \E ok \in BOOLEAN :
       IF ok THEN vwSql' = Preamble /\ vpc' = "Views" /\ vwErr' = vwErr
             ELSE vwSql' = vwSql /\ VwFail
  /\ UNCHANGED <<vwViews, vwWeights, srcPrefix, dstPrefix, viewsErr,
                 weightedViews, vi, vwStmts, dumpedSql, vwRet, doneTask,
                 vwDone>>
  /\ UNCHANGED notVw

\* "for _, weightedView := range weightedViews": the view's definition is
\* queried and its statement written; a failed query returns "", err; after
\* the last view buf.String() is returned.
VwViewStmt ==
  /\ vpc = "Views"
  /\ IF vi > Len(weightedViews)
       THEN vpc' = "CheckPrefix" /\ UNCHANGED <<vi, vwSql, vwStmts, vwErr>>
       ELSE \E ok \in BOOLEAN :
              IF ok
                THEN /\ vwSql' = vwSql \o ViewStmt(weightedViews[vi].name,
                                                   ViewBody(weightedViews[vi].name))
                     /\ vwStmts' = Append(vwStmts, weightedViews[vi].name)
                     /\ vi' = vi + 1
                     /\ UNCHANGED <<vpc, vwErr>>
                ELSE /\ vwSql' = << >>
                     /\ VwFail
                     /\ UNCHANGED <<vi, vwStmts>>
  /\ UNCHANGED <<vwViews, vwWeights, srcPrefix, dstPrefix, viewsErr,
                 weightedViews, dumpedSql, vwRet, doneTask, vwDone>>
  /\ UNCHANGED notVw

\* readAndDumpViews: "if len(sourceDbPrefix) == 0 { return errors.New(...) }"
VwCheckPrefix ==
  /\ vpc = "CheckPrefix"
  /\ IF Len(srcPrefix) = 0 THEN VwFail
                           ELSE vpc' = "Compile" /\ vwErr' = vwErr
  /\ UNCHANGED <<vwViews, vwWeights, srcPrefix, dstPrefix, viewsErr,
                 weightedViews, vi, vwSql, vwStmts, dumpedSql, vwRet,
                 doneTask, vwDone>>
  /\ UNCHANGED notVw

\* r := regexp.MustCompile(fmt.Sprintf(..., sourceDbPrefix)): a panic in
\* DumpViews when the pattern does not compile.
VwCompile ==
  /\ vpc = "Compile"
  /\ IF PatternCompiles(srcPrefix)
       THEN vpc' = "Dump" /\ vwRet' = vwRet
       ELSE vpc' = "Panicked" /\ vwRet' = "panic"
  /\ UNCHANGED <<vwViews, vwWeights, srcPrefix, dstPrefix, viewsErr,
                 weightedViews, vi, vwSql, vwStmts, dumpedSql, vwErr,
                 doneTask, vwDone>>
  /\ UNCHANGED notVw

\* destSQL := r.ReplaceAllStringFunc(...); e.DumpViewDefinitions(destSQL)
VwDump ==
  /\ vpc = "Dump"
  /\ dumpedSql' = Append(dumpedSql, DestSQL(vwSql, srcPrefix, dstPrefix))
  /\ \E ok \in BOOLEAN : vwErr' = ~ok
  /\ vpc' = "SpawnDone"
  /\ UNCHANGED <<vwViews, vwWeights, srcPrefix, dstPrefix, viewsErr,
                 weightedViews, vi, vwSql, vwStmts, vwRet, doneTask, vwDone>>
  /\ UNCHANGED notVw

\* DumpViews: "go func() { done <- struct{}{} }()"
VwSpawnDone ==
  /\ vpc = "SpawnDone"
  /\ doneTask' = "Sending"
  /\ vpc' = "Return"
  /\ UNCHANGED <<vwViews, vwWeights, srcPrefix, dstPrefix, viewsErr,
                 weightedViews, vi, vwSql, vwStmts, dumpedSql, vwErr, vwRet,
                 vwDone>>
  /\ UNCHANGED notVw

\* DumpViews: "return err"
VwReturn ==
  /\ vpc = "Return"
  /\ vwRet' = IF vwErr THEN "err" ELSE "nil"
  /\ vpc' = "Returned"
  /\ UNCHANGED <<vwViews, vwWeights, srcPrefix, dstPrefix, viewsErr,
                 weightedViews, vi, vwSql, vwStmts, dumpedSql, vwErr,
                 doneTask, vwDone>>
  /\ UNCHANGED notVw

\* The goroutine's send meets "<-done" of RunMirror, which is reached only
\* when DumpViews returned nil (failOnError ends the process otherwise).
VwDoneSend ==
  /\ doneTask = "Sending"
  /\ vwRet = "nil"
  /\ vwDone' = vwDone + 1
  /\ doneTask' = "Sent"
  /\ UNCHANGED <<vwViews, vwWeights, srcPrefix, dstPrefix, vpc, viewsErr,
                 weightedViews, vi, vwSql, vwStmts, dumpedSql, vwErr, vwRet>>
  /\ UNCHANGED notVw

VwNext ==
  \/ VwGetViews
  \/ VwSort
  \/ VwPreamble
  \/ VwViewStmt
  \/ VwCheckPrefix
  \/ VwCompile
  \/ VwDump
  \/ VwSpawnDone
  \/ VwReturn
  \/ VwDoneSend

\* =========================================================================
\* a.compiledRules, the map of one anonymiser shared by the read goroutines
\* of all tables (src/pkg/anonymiser/anonymiser.go, engine.go:172-176).
\* An access to a Go map is not atomic: it begins and it ends.
\* =========================================================================

\* rows of a table
MaxRuleRows == 1

\* The tables, in the order of GetTables; each has one cond: rule.
RuleTables == <<"a", "b">>

RuleTableSet == {RuleTables[i] : i \in DOMAIN RuleTables}

\* RuleKey(tableName, columnName)
RuleKey(tableName, columnName) == <<tableName, ".", columnName>>

RlInit ==
  /\ rlN \in 1..2
  /\ rlSem = 0
  /\ rlPc = [t \in RuleTableSet |-> "none"]
  /\ rlGo = [t \in RuleTableSet |-> "none"]
  /\ rlRows \in [RuleTableSet -> 0..MaxRuleRows]
  /\ rlMap = {}
  /\ rlFatal = FALSE

\* Table t is being written to the map by its ReadTable.
Writing(t) == rlPc[t] = "Writing"

\* The goroutine of table t is reading the map.
Reading(t) == rlGo[t] = "Reading"

\* A write to the map is in progress together with another write or a read.
Conflict ==
  \E t \in RuleTableSet : \E u \in RuleTableSet \ {t} :
    Writing(t) /\ (Writing(u) \/ Reading(u))

\* readAndDumpTables: "semChan <- struct{}{}" and "go func ... ReadTable":
\* the tables are launched in order, each when the semaphore has room.
RlLaunch(i) ==
  /\ ~rlFatal
  /\ rlPc[RuleTables[i]] = "none"
  /\ \A j \in 1..(i - 1) : rlPc[RuleTables[j]] # "none"
  /\ rlSem < rlN
  /\ rlSem' = rlSem + 1
  /\ rlPc' = [rlPc EXCEPT ![RuleTables[i]] = "Compile"]
  /\ UNCHANGED <<rlN, rlGo, rlRows, rlMap, rlFatal>>
  /\ UNCHANGED notRl

\* anonymiser.ReadTable: "a.compiledRules[ruleKey] = program" begins.
RlWriteBegin(t) ==
  /\ ~rlFatal
  /\ rlPc[t] = "Compile"
  /\ rlPc' = [rlPc EXCEPT ![t] = "Writing"]
  /\ UNCHANGED <<rlN, rlSem, rlGo, rlRows, rlMap, rlFatal>>
  /\ UNCHANGED notRl

\* The assignment is done; rawChan is made and the goroutine started.
RlWriteEnd(t) ==
  /\ ~rlFatal
  /\ rlPc[t] = "Writing"
  /\ rlMap' = rlMap \cup {RuleKey(t, "email")}
  /\ rlPc' = [rlPc EXCEPT ![t] = "Calling"]
  /\ rlGo' = [rlGo EXCEPT ![t] = "Recv"]
  /\ UNCHANGED <<rlN, rlSem, rlRows, rlFatal>>
  /\ UNCHANGED notRl

\* The wrapped ReadTable sends a row, the goroutine receives it and begins
\* "expr.Run(a.compiledRules[ruleKey], env)": the read of the map.
RlReadBegin(t) ==
  /\ ~rlFatal
  /\ rlPc[t] = "Calling"
  /\ rlGo[t] = "Recv"
  /\ rlRows[t] > 0
  /\ rlRows' = [rlRows EXCEPT ![t] = @ - 1]
  /\ rlGo' = [rlGo EXCEPT ![t] = "Reading"]
  /\ UNCHANGED <<rlN, rlSem, rlPc, rlMap, rlFatal>>
  /\ UNCHANGED notRl

\* The read is done, the row is transformed and sent to DumpTable.
RlReadEnd(t) ==
  /\ ~rlFatal
  /\ rlGo[t] = "Reading"
  /\ rlGo' = [rlGo EXCEPT ![t] = "Recv"]
  /\ UNCHANGED <<rlN, rlSem, rlPc, rlRows, rlMap, rlFatal>>
  /\ UNCHANGED notRl

\* The wrapped ReadTable has sent its rows: it closes rawChan and returns.
RlReturn(t) ==
  /\ ~rlFatal
  /\ rlPc[t] = "Calling"
  /\ rlGo[t] = "Recv"
  /\ rlRows[t] = 0
  /\ rlPc' = [rlPc EXCEPT ![t] = "Returned"]
  /\ UNCHANGED <<rlN, rlSem, rlGo, rlRows, rlMap, rlFatal>>
  /\ UNCHANGED notRl

\* The goroutine sees rawChan closed, closes the sink and ends; DumpTable
\* returns and its goroutine frees the slot.
RlEnd(t) ==
  /\ ~rlFatal
  /\ rlPc[t] = "Returned"
  /\ rlGo[t] = "Recv"
  /\ rlGo' = [rlGo EXCEPT ![t] = "Ended"]
  /\ rlSem' = rlSem - 1
  /\ UNCHANGED <<rlN, rlPc, rlRows, rlMap, rlFatal>>
  /\ UNCHANGED notRl

\* Unsynchronised accesses to a map race; the runtime may detect it
\* ("fatal error: concurrent map writes" / "concurrent map read and map
\* write") and abort, or may not.
RlThrow ==
  /\ ~rlFatal
  /\ Conflict
  /\ rlFatal' = TRUE
  /\ UNCHANGED <<rlN, rlSem, rlPc, rlGo, rlRows, rlMap>>
  /\ UNCHANGED notRl

RlNext ==
  \/ \E i \in DOMAIN RuleTables : RlLaunch(i)
  \/ \E t \in RuleTableSet : RlWriteBegin(t)
  \/ \E t \in RuleTableSet : RlWriteEnd(t)
  \/ \E t \in RuleTableSet : RlReadBegin(t)
  \/ \E t \in RuleTableSet : RlReadEnd(t)
  \/ \E t \in RuleTableSet : RlReturn(t)
  \/ \E t \in RuleTableSet : RlEnd(t)
  \/ RlThrow

\* =========================================================================
\* Specifications
\* =========================================================================

\* The state of each part while another part is being checked.
EngIdle ==
  /\ tables = << >>
  /\ ignoreData = {}
  /\ concurrency = 0
  /\ hooker = FALSE
  /\ epc = "Idle"
  /\ idx = 1
  /\ retErr = "none"
  /\ structState = "none"
  /\ preState = "none"
  /\ postState = "none"
  /\ semChan = 0
  /\ semClosed = FALSE
  /\ wg = 0
  /\ rowChan = [t \in TableIds |-> "none"]
  /\ dumpTask = [t \in TableIds |-> "none"]
  /\ readTask = [t \in TableIds |-> "none"]
  /\ sentRows = [t \in TableIds |-> FALSE]
  /\ taskErr = [t \in TableIds |-> {}]
  /\ compTask = "none"
  /\ doneSent = 0

AnIdle ==
  /\ anRow0 = << >>
  /\ anRow = << >>
  /\ anSpec = << >>
  /\ anCompiled = {}
  /\ anTodo = {}
  /\ anPc = "Idle"
  /\ anOut = << >>

RdIdle ==
  /\ rdMode = "direct"
  /\ rdRows = << >>
  /\ rdRels = << >>
  /\ rpc = "Idle"
  /\ ri = 1
  /\ rj = 1
  /\ rk = 1
  /\ rkids = << >>
  /\ rerr = "nil"
  /\ colCache = {}
  /\ apc = "none"
  /\ aerr = "none"
  /\ gpc = "none"
  /\ gRow = << >>
  /\ rawCloses = 0
  /\ sinkCloses = 0
  /\ cpc = "Idle"
  /\ emitted = << >>
  /\ stream = << >>
  /\ rdLost = {}

VwIdle ==
  /\ vwViews = << >>
  /\ vwWeights = << >>
  /\ srcPrefix = << >>
  /\ dstPrefix = << >>
  /\ vpc = "Idle"
  /\ viewsErr = FALSE
  /\ weightedViews = << >>
  /\ vi = 1
  /\ vwSql = << >>
  /\ vwStmts = << >>
  /\ dumpedSql = << >>
  /\ vwErr = FALSE
  /\ vwRet = "none"
  /\ doneTask = "none"
  /\ vwDone = 0

RlIdle ==
  /\ rlN = 0
  /\ rlSem = 0
  /\ rlPc = << >>
  /\ rlGo = << >>
  /\ rlRows = << >>
  /\ rlMap = {}
  /\ rlFatal = FALSE

\* ---- Engine.Dump
Init == EngInit /\ AnIdle /\ RdIdle /\ VwIdle /\ RlIdle

Next == EngNext

Spec == Init /\ [][Next]_vars

\* The executions termination is claimed of: a concurrency of at least 1 and
\* a Dumper that is a Hooker, so that the post hook is part of the run.
FairInit == Init /\ concurrency >= 1 /\ hooker

\* The Go scheduler runs every runnable goroutine: some enabled step is
\* eventually taken.
FairSpec == FairInit /\ [][Next]_vars /\ WF_vars(Next)

\* ---- one ReadTable call
InitRead == RdInit /\ EngIdle /\ AnIdle /\ VwIdle /\ RlIdle

NextRead == ReadNext

SpecRead == InitRead /\ [][NextRead]_vars

\* ---- the anonymiser's transformation of one row
InitAnon == AnInit /\ EngIdle /\ RdIdle /\ VwIdle /\ RlIdle

NextAnon == AnNext

SpecAnon == InitAnon /\ [][NextAnon]_vars

\* ---- Engine.DumpViews
InitViews == VwInit /\ EngIdle /\ AnIdle /\ RdIdle /\ RlIdle

NextViews == VwNext

SpecViews == InitViews /\ [][NextViews]_vars


\* ---- the compiled-rule map of one anonymiser under concurrent tables
InitRules == RlInit /\ EngIdle /\ AnIdle /\ RdIdle /\ VwIdle

NextRules == RlNext

SpecRules == InitRules /\ [][NextRules]_vars

\* ---- one ReadTable call on the SQL reader itself, with the caller's channel
InitDirect == InitRead /\ rdMode = "direct"

NextDirect ==
  \/ RdGetColumns
  \/ RdQuery
  \/ RdColumnTypes
  \/ RdNext
  \/ RdRel
  \/ RdChild
  \/ SendToSink
  \/ RdClose
  \/ RdReturn
  \/ ConsumerDrained
  \/ ConsumerStop

SpecDirect == InitDirect /\ [][NextDirect]_vars
\* =========================================================================
\* Properties of Engine.Dump
\* =========================================================================

DumpTableStarted(t) == dumpTask[t] \in {"DumpTable", "returned", "released", "done"}

DumpTableReturned(t) == dumpTask[t] \in {"returned", "released", "done"}

ReadTableStarted(t) == readTask[t] \in {"ReadTable", "closed", "returned"}

InFlightDumps == {t \in TableIds : dumpTask[t] = "DumpTable"}

\* C1: for any table list and any concurrency N >= 1, at every instant the
\* number of tables whose DumpTable call has started and not yet returned is
\* at most N.
C1_ConcurrencyBound ==
  concurrency >= 1 => Cardinality(InFlightDumps) <= concurrency

\* C1 witness: N dumps are in flight and the loop is held at the semaphore
\* with a further table to launch.
C1_Witness ==
  /\ concurrency >= 1
  /\ Cardinality(InFlightDumps) = concurrency
  /\ epc = "Loop"
  /\ idx <= Len(tables)
  /\ tables[idx] \notin ignoreData

\* C4: with a Hooker, PreDumpTables has returned (successfully) before the
\* first DumpTable call starts, and PostDumpTables is called only after every
\* table has been launched and the last DumpTable call has returned; without a
\* Hooker neither hook is called.
C4_HookOrder ==
  /\ hooker =>
       /\ \A t \in TableIds : DumpTableStarted(t) => preState = "ok"
       /\ postState # "none" =>
            /\ epc = "Returned"
            /\ \A t \in TableIds : dumpTask[t] # "none" => DumpTableReturned(t)
  /\ ~hooker => (preState = "none" /\ postState = "none")

\* C4 witness: a Hooker whose PostDumpTables has been called after two tables
\* were dumped.
C4_Witness ==
  /\ hooker
  /\ postState = "running"
  /\ Cardinality({t \in TableIds : DumpTableReturned(t)}) >= 2

\* C5: when Dump returns nil, exactly one value is sent on done: never a
\* second one, the one value is sent by the completion goroutine after every
\* launched DumpTable has returned and PostDumpTables (with a Hooker) has been
\* invoked, and the execution cannot come to rest before it is sent.
C5_DoneExactlyOnce ==
  /\ doneSent <= 1
  /\ doneSent = 1 =>
       /\ retErr = "nil"
       /\ compTask = "Finished"
       /\ \A t \in TableIds : dumpTask[t] # "none" => DumpTableReturned(t)
       /\ hooker => postState # "none"
  /\ (retErr = "nil" /\ ~ENABLED EngNext) => doneSent = 1

\* C5 witness: done has been signalled after a dump that launched a table.
C5_Witness ==
  /\ doneSent = 1
  /\ \E t \in TableIds : dumpTask[t] = "done"

\* C10: DumpStructure has returned successfully before PreDumpTables, any
\* ReadTable and any DumpTable is started.
C10_StructureFirst ==
  (\/ preState # "none"
   \/ \E t \in TableIds : DumpTableStarted(t) \/ ReadTableStarted(t))
  => structState = "ok"

\* C10 witness: a table is being read and dumped after the structure dump.
C10_Witness ==
  /\ structState = "ok"
  /\ \E t \in TableIds : dumpTask[t] = "DumpTable" /\ readTask[t] = "ReadTable"

\* =========================================================================
\* Properties of ReadTable
\* =========================================================================

\* The outermost ReadTable call has returned to the caller.
CallReturned == aerr # "none"

\* C2 (as stated): whenever a ReadTable call has returned, directly on the SQL
\* reader or through the anonymiser, with an error or not, the caller's sink
\* has been closed exactly once.
C2_ClosedAtReturn == CallReturned => sinkCloses = 1

\* C2 (amended): no channel is ever closed twice. A call on the SQL reader, or
\* through an anonymiser that hands the caller's channel on, has closed the
\* sink exactly once when it returns, error or not. Through a transforming
\* anonymiser the call has closed rawChan when it returns and the sink is
\* closed by the goroutine, exactly when it ends after seeing rawChan closed;
\* if the consumer keeps receiving, the execution cannot come to rest before
\* the sink is closed.
C2_ClosedOnce ==
  /\ sinkCloses <= 1
  /\ rawCloses <= 1
  /\ (rdMode # "transform" /\ CallReturned) => sinkCloses = 1
  /\ rdMode = "transform" =>
       /\ CallReturned => rawCloses = 1
       /\ sinkCloses = 1 <=> gpc = "Ended"
       /\ gpc = "Ended" => rawCloses = 1
  /\ (rpc # "Idle" /\ cpc # "Stopped" /\ ~ENABLED ReadNext) => sinkCloses = 1

\* C2 witness: a call through the transforming anonymiser has returned and
\* the goroutine has closed the sink after delivering a row.
C2_Witness ==
  /\ rdMode = "transform"
  /\ CallReturned
  /\ sinkCloses = 1
  /\ Len(stream) >= 1

\* SQL equality of a referenced key and a foreign key.
CellEq(a, b) ==
  /\ a.k \notin {"nil", "other"}
  /\ b.k \notin {"nil", "other"}
  /\ a.v = b.v

ParentEntries == {p \in DOMAIN emitted : emitted[p].rel = 0}

NoParentBetween(q, p) ==
  \A x \in DOMAIN emitted : (q < x /\ x < p) => emitted[x].rel # 0

\* Relationships are expanded in declaration order, each row's referenced
\* rows in query order, between the previous row of the table and the row.
ExpansionOrder ==
  \A q1, q2 \in DOMAIN emitted :
    (q1 < q2 /\ emitted[q1].parent = emitted[q2].parent) =>
      /\ emitted[q1].rel # 0
      /\ emitted[q2].rel # 0 =>
           \/ emitted[q1].rel < emitted[q2].rel
           \/ /\ emitted[q1].rel = emitted[q2].rel
              /\ emitted[q1].kid < emitted[q2].kid

C6_ColumnsPreserved == anPc = "Sent" => DOMAIN anRow = DOMAIN anRow0

\* The cell of column c is what it was before the directive of c was applied.
CellUnchanged(c) ==
  /\ c \in DOMAIN anRow <=> c \in DOMAIN anOut[c].before
  /\ c \in DOMAIN anRow => anRow[c] = anOut[c].before[c]

\* The cell of column c holds the string s.
CellIs(c, s) == c \in DOMAIN anRow /\ anRow[c] = StrC(s)

\* C9 (as stated): for a column with a cond: directive, once the directive
\* was applied to a row, Anon("FirstName") has set the cell to the faker's
\* value, Literal("s") has set it to "s", Skip() has left it unchanged, and
\* IsNil(row, "email") ? Literal("N/A") : Skip() has set it to "N/A" when the
\* row's email was null and left it unchanged otherwise.
C9_OptionContract ==
  \A c \in DOMAIN anOut :
    anSpec[c].prefix = conditionalPrefix =>
      LET text == anSpec[c].rest
          before == anOut[c].before
      IN /\ text = "Anon(\"FirstName\")" => CellIs(c, Anonymise("FirstName"))
         /\ text = "Literal(\"s\")" => CellIs(c, "s")
         /\ text = "Skip()" => CellUnchanged(c)
         /\ text = "IsNil(row, \"email\") ? Literal(\"N/A\") : Skip()" =>
              IF "email" \in DOMAIN before /\ before["email"] = NilC
                THEN CellIs(c, "N/A")
                ELSE CellUnchanged(c)

\* The directive of column c is a cond: rule that did not compile, or one
\* whose run on this row ended in an error.
FailedRule(c) ==
  /\ anSpec[c].prefix = conditionalPrefix
  /\ c \notin anCompiled \/ anOut[c].out = RuntimeError

\* Every cond: rule of the table that compiles returns an Option, as the
\* rule language requires of a program.
RulesReturnOptions ==
  \A d \in DOMAIN anSpec :
    (anSpec[d].prefix = conditionalPrefix /\ Compile(anSpec[d].rest).compiles)
      => Compile(anSpec[d].rest).test # "const"

\* The directive of column d has acted on the row: a literal or a faker
\* directive has set the cell, a cond: rule was run.
DirectiveApplied(d) ==
  /\ d \in DOMAIN anOut
  /\ anSpec[d].prefix = literalPrefix => CellIs(d, anSpec[d].rest)
  /\ anSpec[d].prefix = "" => CellIs(d, Anonymise(anSpec[d].rest))

RECURSIVE Statements(_)
Statements(names) ==
  IF names = << >> THEN << >>
  ELSE ViewStmt(Head(names), ViewBody(Head(names))) \o Statements(Tail(names))

\* C7: the CREATE OR REPLACE VIEW statements GetViewDefinitions writes are in
\* an order non-decreasing by weight, the weight of a view being
\* spec.Views[name] when present and max-int when absent; every view with a
\* configured weight below max-int comes before every unconfigured view; the
\* text returned is the preamble followed by one statement per view.
C7_ViewOrder ==
  LET w(name) == IF name \in DOMAIN vwWeights THEN vwWeights[name] ELSE MaxInt
  IN /\ \A i, j \in DOMAIN vwStmts :
          i < j => w(vwStmts[i]) <= w(vwStmts[j])
     /\ \A i, j \in DOMAIN vwStmts :
          ( /\ vwStmts[i] \in DOMAIN vwWeights
            /\ vwWeights[vwStmts[i]] < MaxInt
            /\ vwStmts[j] \notin DOMAIN vwWeights ) => i < j
     /\ vpc = "CheckPrefix" =>
          /\ {vwStmts[i] : i \in DOMAIN vwStmts} = {vwViews[i] : i \in DOMAIN vwViews}
          /\ Len(vwStmts) = Len(vwViews)
          /\ vwSql = Preamble \o Statements(vwStmts)

\* C7 witness: two views, the second of them the only one configured, were
\* written with the configured one first.
C7_Witness ==
  /\ vpc = "CheckPrefix"
  /\ Len(vwViews) = 2
  /\ DOMAIN vwWeights = {vwViews[2]}
  /\ vwWeights[vwViews[2]] < MaxInt
  /\ vwStmts = <<vwViews[2], vwViews[1]>>

\* C8 (as stated): once readAndDumpViews has obtained the view SQL and is
\* past its rewrite with sourceDbPrefix = destinationDbPrefix = X, X not
\* empty, DumpViewDefinitions has been passed the view SQL as it was.
C8_SamePrefixUnchanged ==
  ( /\ srcPrefix = dstPrefix
    /\ srcPrefix # << >>
    /\ vwSql # << >>
    /\ vpc \in {"Panicked", "SpawnDone", "Return", "Returned"} )
  => dumpedSql = <<vwSql>>

\* The position of a view in the list GetViews returned.
Discovered(name) == CHOOSE i \in DOMAIN vwViews : vwViews[i] = name

\* C19 (as stated): of two views of equal weight, the one GetViews listed
\* first has its statement written first.
C19_StableOrder ==
  \A i, j \in DOMAIN vwStmts :
    ( /\ i < j
      /\ getViewWeight(vwStmts[i]) = getViewWeight(vwStmts[j]) )
    => Discovered(vwStmts[i]) < Discovered(vwStmts[j])

\* DumpViews is over: it returned, or it panicked.
DumpViewsOver == vpc \in {"Returned", "Panicked"}

\* C22 (as stated): every call of DumpViews, once over, has started the one
\* send of a value on done, and no second value is ever sent; with an empty
\* source prefix DumpViewDefinitions is never called and DumpViews returns
\* an error.
C22_DoneOncePerCall ==
  /\ vwDone <= 1
  /\ DumpViewsOver => doneTask \in {"Sending", "Sent"}
  /\ Len(srcPrefix) = 0 => dumpedSql = << >>
  /\ (Len(srcPrefix) = 0 /\ vpc = "Returned") => vwRet = "err"
\* =========================================================================
\* Properties of one table's pipeline
\* =========================================================================

\* The rows the innermost reader has sent, as the consumer is to receive
\* them: as they are, or with the anonymiser's directives applied.
SentByReader ==
  [i \in DOMAIN emitted |->
     IF rdMode = "transform" THEN TransformRow(emitted[i].row)
                             ELSE emitted[i].row]

\* Rows the anonymiser's goroutine has received and not yet sent.
HeldRows == Len(emitted) - Len(stream)

\* C11: with or without the anonymiser in the chain, the rows the consumer
\* of the sink has received are the rows the innermost reader has sent, in
\* the same order, none dropped and none duplicated, except the row the
\* anonymiser's goroutine holds; the goroutine holds at most one row, and
\* none when it has closed the sink; without the goroutine no row is held.
C11_OrderPreserved ==
  /\ HeldRows \in {0, 1}
  /\ stream = SubSeq(SentByReader, 1, Len(stream))
  /\ HeldRows = 1 <=> gpc = "Send"
  /\ rdMode # "transform" => HeldRows = 0
  /\ gpc = "Ended" => stream = SentByReader

\* C11 witness: through the anonymiser, the consumer has received two rows
\* and the goroutine holds a third.
C11_Witness ==
  /\ rdMode = "transform"
  /\ Len(stream) = 2
  /\ gpc = "Send"
  /\ Len(emitted) = 3

\* The wrapped ReadTable has run its deferred close.
WrappedClosed == rpc \in {"Return", "Returned"}

\* C17 (as stated): through the transforming anonymiser the sink is closed
\* only when the wrapped ReadTable closed rawChan having finished without an
\* error; when the wrapped ReadTable fails the sink is not closed.
C17_ClosedIffNoError ==
  rdMode = "transform" =>
    /\ sinkCloses >= 1 => (rawCloses = 1 /\ rerr = "nil")
    /\ rerr = "err" => sinkCloses = 0

\* C17 (amended): through the transforming anonymiser the sink is closed only
\* after rawChan was closed; rawChan is closed by the deferred close of the
\* wrapped ReadTable, whether it finished with an error or without; and once
\* rawChan is closed the execution does not come to rest before the goroutine
\* has closed the sink, unless the consumer has stopped receiving while the
\* goroutine holds a row.
C17_ClosedIffUpstreamClosed ==
  rdMode = "transform" =>
    /\ sinkCloses >= 1 => rawCloses = 1
    /\ rawCloses = 1 <=> WrappedClosed
    /\ rawCloses = 0 => gpc # "Ended"
    /\ (rawCloses = 1 /\ ~ENABLED ReadNext /\ ~(cpc = "Stopped" /\ gpc = "Send"))
         => sinkCloses = 1

\* C17 witness: the wrapped ReadTable failed after a row was delivered, and
\* the goroutine closed the sink.
C17_Witness ==
  /\ rdMode = "transform"
  /\ rerr = "err"
  /\ aerr = "err"
  /\ Len(stream) >= 1
  /\ sinkCloses = 1

\* C18 (as stated): an error met while expanding a relationship of a row
\* (the referenced table's columns, the conversion of the foreign key, the
\* relationship query, publishing the relationship's rows) ends the read:
\* ReadTable is on its way out with an error, and no row of the table with
\* such an error in one of its relationships is ever sent.
C18_ExpansionErrorsFatal ==
  /\ (\E x \in rdLost : x[2] > 0 /\ x[3] = 0) =>
       (rerr = "err" /\ rpc \in {"Close", "Return", "Returned"})
  /\ \A p \in ParentEntries : \A j \in DOMAIN rdRels :
       /\ <<emitted[p].parent, j, 0>> \notin rdLost
       /\ ~ToSQLStringValue(emitted[p].row[rdRels[j].ForeignKey]).err

\* rows.Scan failed on row i of the table.
ScanFailed(i) == <<i, 0, 0>> \in rdLost

\* Row i of the table was sent.
RowSent(i) == \E p \in ParentEntries : emitted[p].parent = i

\* C25: on the SQL reader, a row of the table whose Scan failed is never
\* sent, none of its relationships is expanded and the read has gone on to
\* the next row; the rows the read has gone past are each sent or failed in
\* Scan, and those sent are sent as they are and in the order of the query;
\* an error of ReadTable comes from a row that was scanned, never from a row
\* whose Scan failed; and after a failed Scan the sink is still closed at
\* most once, once when ReadTable has returned, and the execution does not
\* come to rest with a receiving consumer before the sink is closed.
C25_ScanErrorSkipsRow ==
  /\ \A i \in DOMAIN rdRows : ScanFailed(i) =>
       /\ i < ri
       /\ \A q \in DOMAIN emitted : emitted[q].parent # i
       /\ \A x \in rdLost : x[1] = i => x = <<i, 0, 0>>
  /\ \A i \in DOMAIN rdRows : i < ri => (ScanFailed(i) \/ RowSent(i))
  /\ \A p, q \in ParentEntries :
       /\ emitted[p].row = rdRows[emitted[p].parent]
       /\ p < q => emitted[p].parent < emitted[q].parent
  /\ (rdLost # {} /\ rerr = "err") => (ri \in DOMAIN rdRows /\ ~ScanFailed(ri))
  /\ (\E i \in DOMAIN rdRows : ScanFailed(i)) =>
       /\ sinkCloses <= 1
       /\ CallReturned => sinkCloses = 1
       /\ (sinkCloses = 0 /\ cpc # "Stopped") => ENABLED NextDirect

\* C25 witness: Scan failed on the first of two rows of a table with a
\* relationship, the second row was sent after its referenced rows, the call
\* returned without an error and the sink is closed.
C25_Witness ==
  /\ ScanFailed(1)
  /\ RowSent(2)
  /\ Len(rdRels) >= 1
  /\ Len(emitted) >= 2
  /\ CallReturned /\ aerr = "nil"
  /\ sinkCloses = 1
\* =========================================================================
\* Errors, termination and joins of Engine.Dump
\* =========================================================================

\* The tables the loop launches.
Launchable == {tables[i] : i \in DOMAIN tables} \ ignoreData

\* No step of Dump, of a task or of the completion goroutine is possible.
AtRest == ~ENABLED EngNext

\* Table t was read and dumped to the end: ReadTable returned after closing
\* the channel, DumpTable returned, the slot was released and wg.Done() run.
PipelineDone(t) ==
  /\ rowChan[t] = "closed"
  /\ readTask[t] = "returned"
  /\ dumpTask[t] = "done"

\* C12: when ReadTable of a table has failed, the table's row channel is
\* closed all the same, so its DumpTable can see the end of the stream; the
\* execution does not come to rest before that DumpTable has returned and
\* released its slot, every other table that is not ignored was read and
\* dumped to the end (unless its own DumpTable failed before its channel was
\* closed) and done was signalled.
C12_ReadErrorIsolated ==
  \A t \in TableIds :
    "read" \in taskErr[t] =>
      /\ rowChan[t] = "closed"
      /\ dumpTask[t] = "DumpTable" => ENABLED DumpDrained(t)
      /\ AtRest =>
           /\ dumpTask[t] = "done"
           /\ semChan = 0
           /\ doneSent = 1
           /\ \A u \in Launchable \ {t} :
                /\ dumpTask[u] = "done"
                /\ "dump" \notin taskErr[u] => PipelineDone(u)

\* C12 witness: the first table's ReadTable failed, the second table was read
\* and dumped without an error after it, and done was signalled.
C12_Witness ==
  /\ Len(tables) >= 2
  /\ taskErr[1] = {"read"}
  /\ taskErr[2] = {}
  /\ sentRows[2]
  /\ PipelineDone(1)
  /\ PipelineDone(2)
  /\ doneSent = 1

\* C13: when DumpTable of a table has returned an error, also before its
\* channel was closed, Dump does not return an error; the execution does not
\* come to rest before every other table that is not ignored has had its
\* DumpTable and ReadTable started and run until its channel was closed
\* (unless its own DumpTable failed too), and done was signalled.
C13_DumpErrorIsolated ==
  \A t \in TableIds :
    "dump" \in taskErr[t] =>
      /\ retErr # "err"
      /\ AtRest =>
           /\ retErr = "nil"
           /\ doneSent = 1
           /\ dumpTask[t] = "done"
           /\ \A u \in Launchable \ {t} :
                /\ DumpTableStarted(u)
                /\ ReadTableStarted(u)
                /\ dumpTask[u] = "done"
                /\ "dump" \notin taskErr[u] => PipelineDone(u)

\* C13 witness: the first table's DumpTable returned an error while its
\* channel was open, and the second table was then launched, read and dumped
\* to the end and done was signalled.
C13_Witness ==
  /\ Len(tables) >= 2
  /\ "dump" \in taskErr[1]
  /\ readTask[1] = "ReadTable"
  /\ rowChan[1] = "open"
  /\ taskErr[2] = {}
  /\ PipelineDone(2)
  /\ doneSent = 1

\* A DumpTable call has returned while its channel was open.
EarlyReturn ==
  \E t \in TableIds : DumpTableReturned(t) /\ rowChan[t] = "open"

\* Every table that is not ignored was launched and has released its slot,
\* Dump has returned nil, PostDumpTables (with a Hooker) was invoked and has
\* returned, and done was sent.
Completed ==
  /\ epc = "Returned"
  /\ retErr = "nil"
  /\ \A t \in Launchable : dumpTask[t] = "done"
  /\ semChan = 0
  /\ hooker => postState \in {"ok", "failed"}
  /\ doneSent = 1

\* C14: under weak fairness, for every table list and every concurrency
\* N >= 1, if no DumpTable call returns before its channel is closed and the
\* caller comes to receive from done (Dump does not return an error), then
\* eventually every launched table has released its slot, Dump has returned,
\* PostDumpTables has been invoked and a value has been sent on done.
C14_Terminates ==
  (concurrency >= 1 /\ [](~EarlyReturn /\ retErr # "err")) => <>Completed

\* C14 witness: with concurrency 1, two tables were read and dumped to the
\* end one after the other, the hook was run and done was sent.
C14_Witness ==
  /\ Completed
  /\ hooker
  /\ Cardinality(Launchable) = 2
  /\ \A t \in Launchable : PipelineDone(t) /\ sentRows[t]

\* C15 (as stated): the slot of a table is released exactly once, and when it
\* has been released both the table's DumpTable call and its ReadTable call
\* have returned.
C15_SlotHeldByBothTasks ==
  /\ semChan <= Cardinality({t \in TableIds : dumpTask[t] \in {"spawned", "DumpTable", "returned"}})
  /\ \A t \in TableIds :
       dumpTask[t] \in {"released", "done"} =>
         /\ DumpTableReturned(t)
         /\ readTask[t] = "returned"

\* C16 (as stated): when the completion goroutine has invoked PostDumpTables
\* or has sent on done, every table's read task and every table's dump task
\* has ended.
C16_CompletionJoinsBoth ==
  (postState # "none" \/ doneSent > 0) =>
    \A t \in TableIds :
      /\ dumpTask[t] \in {"none", "done"}
      /\ readTask[t] \in {"none", "returned"}
\* =========================================================================
\* Properties of the compiled-rule map
\* =========================================================================

\* C20 (as stated): with a concurrency of 2 or more and two tables with
\* cond: rules, no write to the compiled-rule map happens together with
\* another write or with a read of the map by a table's goroutine, and the
\* runtime never aborts on the map.
C20_NoConcurrentMapAccess ==
  rlN >= 2 => (~Conflict /\ ~rlFatal)
\* =========================================================================
\* Which tables readAndDumpTables works on, and what an early failure or a
\* concurrency of zero leaves undone
\* =========================================================================

\* The tables whose dump goroutine holds a slot of semChan.
SlotHolders ==
  {t \in TableIds : dumpTask[t] \in {"spawned", "DumpTable", "returned"}}

\* The loop of readAndDumpTables has gone past table t.
LoopPassed(t) ==
  \E i \in DOMAIN tables : tables[i] = t /\ idx > i

\* Nothing was made or started for table t.
Untouched(t) ==
  rowChan[t] = "none" /\ dumpTask[t] = "none" /\ readTask[t] = "none"

\* Table t has its channel and its two goroutines.
Launched(t) ==
  rowChan[t] # "none" /\ dumpTask[t] # "none" /\ readTask[t] # "none"

\* What holds of every state: ignored tables are untouched and hold no
\* slot; any other table is launched once the loop has gone past it and
\* untouched before.
TablesPartitioned ==
  /\ \A t \in ignoreData : Untouched(t)
  /\ semChan = Cardinality(SlotHolders)
  /\ \A t \in Launchable : IF LoopPassed(t) THEN Launched(t) ELSE Untouched(t)

\* What holds of every step: a goroutine is spawned and a channel made only
\* for a table that had none.
LaunchedOnce ==
  \A t \in TableIds :
    /\ (dumpTask'[t] = "spawned" /\ dumpTask[t] # "spawned") => Untouched(t)
    /\ (readTask'[t] = "spawned" /\ readTask[t] # "spawned") => Untouched(t)
    /\ (rowChan'[t] = "open" /\ rowChan[t] # "open") => Untouched(t)
    /\ dumpTask[t] # "none" => dumpTask'[t] # "none"
    /\ readTask[t] # "none" => readTask'[t] # "none"

\* C23: a table with ignore_data set never gets a slot, a row channel, a
\* DumpTable or a ReadTable; every other table has, once the loop has gone
\* past it, one channel shared by one DumpTable and one ReadTable, each
\* started a single time.
C23_IgnoredTablesSkipped ==
  []TablesPartitioned /\ [][LaunchedOnce]_vars

\* The loop is over, it skipped an ignored table, and both calls of another
\* table are running.
C23_Witness ==
  /\ epc = "Returned" /\ retErr = "nil"
  /\ \E t \in ignoreData : LoopPassed(t)
  /\ \E u \in Launchable : dumpTask[u] = "DumpTable" /\ readTask[u] = "ReadTable"

\* C24: when GetStructure, DumpStructure, GetTables or PreDumpTables has
\* failed, Dump has returned an error, and then and ever after no table has
\* a channel, a DumpTable or a ReadTable, no slot is taken, the completion
\* goroutine does not exist, PostDumpTables was not called, nothing was sent
\* on done, and nothing more happens. A return of Dump before the loop (the
\* completion goroutine was not started) is a return of one of the four
\* failures.
C24_EarlyFailureStopsAll ==
  /\ (structState = "failed" \/ preState = "failed") => retErr = "err"
  /\ (epc = "Returned" /\ compTask = "none") => retErr = "err"
  /\ retErr = "err" =>
       /\ epc = "Returned"
       /\ \A t \in TableIds : Untouched(t)
       /\ semChan = 0 /\ wg = 0
       /\ compTask = "none"
       /\ postState = "none"
       /\ doneSent = 0
       /\ ~ENABLED EngNext

\* Dump returned an error after PreDumpTables failed on two tables that
\* were to be dumped.
C24_Witness ==
  /\ retErr = "err"
  /\ preState = "failed"
  /\ Cardinality(Launchable) = 2

\* The loop stands at a table that is not ignored, the first such table.
AtFirstLaunch ==
  /\ epc = "Loop"
  /\ idx \in DOMAIN tables
  /\ ~Ignored(tables[idx])
  /\ \A i \in 1..(idx - 1) : Ignored(tables[i])

\* C26: with a concurrency of 0 and a table that is not ignored, Dump never
\* returns nil, no table ever has a channel, a DumpTable or a ReadTable, the
\* completion goroutine is never started and nothing is sent on done; the
\* loop never gets past the first table that is not ignored, and standing
\* there nothing can happen any more.
C26_ZeroConcurrencyBlocks ==
  (concurrency = 0 /\ Launchable # {}) =>
    /\ retErr # "nil"
    /\ \A t \in TableIds : Untouched(t)
    /\ semChan = 0
    /\ compTask = "none"
    /\ doneSent = 0
    /\ \A t \in Launchable : ~LoopPassed(t)
    /\ AtFirstLaunch => ~ENABLED EngNext

\* C26 witness: the structure was dumped, PreDumpTables succeeded, the loop
\* skipped an ignored table and is blocked at the next with concurrency 0.
C26_Witness ==
  /\ concurrency = 0
  /\ structState = "ok"
  /\ preState = "ok"
  /\ AtFirstLaunch
  /\ idx = 2
  /\ ~ENABLED EngNext
====
